---- MODULE Spec2Model ----
(***************************************************************************)
(* State-machine model of the two remote-service clients of the            *)
(* repository: AdoService (src/ado_service.py) and StorageService          *)
(* (src/storage_service.py).  One behaviour exercises one of the two       *)
(* clients (the two modules have separate entry points and share no        *)
(* state), chosen in Init by the variable client.                          *)
(***************************************************************************)
EXTENDS Integers, Sequences, FiniteSets, TLC

VARIABLES
    client,               \* which client this behaviour exercises
    config,               \* AdoServiceConfiguration built by the caller
    ado_service,          \* the AdoService object
    storage_service,      \* the StorageService object
    http_session,         \* AdoService._http_session: none / open / closed
    blob_service_client,  \* StorageService._blob_service_client
    scope,                \* position of the caller w.r.t. "async with"
    closeCalls,           \* calls of close() on the transport session
    exits,                \* completed __aexit__ calls
    bodyExc,              \* exception with which the with-body was left
    propagated,           \* exception leaving the "async with" statement
    context,              \* RepositoryContext built by the caller
    query,                \* PullRequestQueryParameters built by the caller
    op,                   \* the API-client operation in progress
    opsStarted,           \* operations started so far
    netRequests,          \* GET requests put on the wire
    requests,             \* request targets handed to _make_request
    tasks,                \* the concurrent upload_string calls
    containers,           \* remote containers that exist
    createCalls,          \* create_container calls per container
    created,              \* successful container creations per container
    blobs,                \* remote blobs: <<container, blob>> pairs
    listing               \* the async generator of a list_blobs call

vars == << client, config, ado_service, storage_service, http_session, blob_service_client, scope,
           closeCalls, exits, bodyExc, propagated, context, query, op,
           opsStarted, netRequests, requests, tasks, containers,
           createCalls, created, blobs, listing >>

adoVars == << config, ado_service, http_session, context, query, op, opsStarted,
              netRequests, requests >>

storageVars == << storage_service, blob_service_client, tasks, containers, createCalls,
                  created, blobs, listing >>

scopeVars == << scope, closeCalls, exits, bodyExc, propagated >>

\* ------------------------------------------------------------------ bounds
MaxOps == 2
MaxScopes == 2
MaxBlobs == 2
TicksPerSecond == 10      \* resolution with which waits are measured
UploadTasks == 2

\* ------------------------------------------------------- exception classes
\* Every class a raised exception is an instance of (itself and its bases).
Bases(cls) ==
    CASE cls = "AdoServiceError" -> {"AdoServiceError", "Exception"}
      [] cls = "AdoServiceInvalidPATError" ->
            {"AdoServiceInvalidPATError", "AdoServiceError", "Exception"}
      [] cls = "AdoServiceInvalidUrlError" ->
            {"AdoServiceInvalidUrlError", "AdoServiceError", "Exception"}
      [] cls = "AdoServiceValidationError" ->
            {"AdoServiceValidationError", "AdoServiceError", "Exception"}
      [] cls = "ClientConnectionError" ->
            {"ClientConnectionError", "ClientError", "Exception"}
      [] cls = "ServerTimeoutError" ->
            {"ServerTimeoutError", "ServerConnectionError",
             "ClientConnectionError", "ClientError", "TimeoutError",
             "Exception"}
      [] cls = "ContentTypeError" ->
            {"ContentTypeError", "ClientResponseError", "ClientError",
             "Exception"}
      [] cls = "ClientPayloadError" ->
            {"ClientPayloadError", "ClientError", "Exception"}
      [] cls = "TimeoutError" -> {"TimeoutError", "Exception"}
      [] cls = "JSONDecodeError" ->
            {"JSONDecodeError", "ValueError", "Exception"}
      [] cls = "CancelledError" -> {"CancelledError", "BaseException"}
      [] OTHER -> {cls, "Exception"}

IsInstance(exc, base) == base \in Bases(exc.cls)

\* An exception: its class, its message template and the value formatted
\* into the template ("" when the template takes none).
Exc(cls, msg, arg) == [cls |-> cls, msg |-> msg, arg |-> arg]

NoExc == Exc("None", "", "")

\* ErrorMessages of ado_service.py; a formatted message keeps its template
\* name; the value formatted into it is the exception's arg field.
ADO_PAT_ERROR == "Personal Access Token might be incorrect."
ADO_URL_ERROR == "ADO REST API URL might be incorrect."
ADO_HTTP_REQUEST_FAILED == "ADO REST API request failed with status: {status}"
ADO_HTTP_CLIENT_ERROR == "ADO REST API request failed due to connection issues"
HTTP_TIMEOUT == "ADO REST API request timed out"
DATE_FORMAT_INVALID == "{value} is not in ISO-8601 format"
VALIDATION_ERROR == "{class_name} validation failed."

\* Results of a call: a returned value or a raised exception.
Return(v) == [kind |-> "return", value |-> v, exc |-> NoExc]
Raise(e) == [kind |-> "raise", value |-> "", exc |-> e]
NoResult == [kind |-> "none", value |-> "", exc |-> NoExc]

\* ------------------------------------------------------------- validation
\* A field the caller left out (or passed None for).
Missing == "<missing>"

\* Raw endpoint texts the caller may supply: scheme "://" host path.
RawUrl(scheme, host, path) == [scheme |-> scheme, host |-> host, path |-> path]
MissingUrl == RawUrl(Missing, "", "")
RawUrls == { RawUrl("https", "dev.example.org", ""),
             RawUrl("", "not a url", ""),
             MissingUrl }

\* pydantic HttpUrl: an http(s) scheme and a host are required.
IsHttpUrl(u) == u.scheme \in {"http", "https"} /\ u.host # ""

\* str() of a validated HttpUrl: an empty path is normalised to "/".
HttpUrlStr(u) == u.scheme \o "://" \o u.host \o (IF u.path = "" THEN "/" ELSE u.path)

DefaultHttpTimeout == 60

RawTimeouts == { {}, {0}, {-1} }      \* {} : http_timeout left out

RawConfigs ==
    [ base_address : RawUrls,
      organization_name : {"acme", "", Missing},
      personal_access_token : {"abc", Missing},
      http_timeout : RawTimeouts ]

\* The arguments a constructor was called with are kept in raw.
NoRawConfig ==
    [ base_address |-> RawUrl("", "", ""), organization_name |-> "",
      personal_access_token |-> "", http_timeout |-> {} ]

NoConfig ==
    [ ok |-> FALSE, error |-> NoExc, raw |-> NoRawConfig,
      base_address |-> "", organization_name |-> "",
      personal_access_token |-> "", http_timeout |-> 0 ]

\* AdoServiceConfiguration(**raw): pydantic checks the declared field types,
\* base_address: HttpUrl, organization_name: str,
\* personal_access_token: SecretStr, http_timeout: int = 60.
AdoServiceConfiguration(raw) ==
    IF /\ raw.base_address # MissingUrl
       /\ IsHttpUrl(raw.base_address)
       /\ raw.organization_name # Missing
       /\ raw.personal_access_token # Missing
    THEN [ ok |-> TRUE, error |-> NoExc, raw |-> raw,
           base_address |-> HttpUrlStr(raw.base_address),
           organization_name |-> raw.organization_name,
           personal_access_token |-> raw.personal_access_token,
           http_timeout |-> IF raw.http_timeout = {} THEN DefaultHttpTimeout
                            ELSE CHOOSE t \in raw.http_timeout : TRUE ]
    ELSE [ NoConfig EXCEPT
             !.raw = raw,
             !.error = Exc("ValidationError", "AdoServiceConfiguration", "") ]

RawContexts ==
    { [ repository_name |-> "R", project_name |-> "P" ],
      [ repository_name |-> "", project_name |-> "P" ],
      [ repository_name |-> "R", project_name |-> "" ],
      [ repository_name |-> Missing, project_name |-> "P" ] }

NoContext ==
    [ ok |-> FALSE, error |-> NoExc,
      raw |-> [ repository_name |-> "", project_name |-> "" ],
      repository_name |-> "", project_name |-> "" ]

\* RepositoryContext(**raw): both fields are declared str.
RepositoryContext(raw) ==
    IF raw.repository_name # Missing /\ raw.project_name # Missing
    THEN [ ok |-> TRUE, error |-> NoExc, raw |-> raw,
           repository_name |-> raw.repository_name,
           project_name |-> raw.project_name ]
    ELSE [ NoContext EXCEPT
             !.raw = raw,
             !.error = Exc("ValidationError", "RepositoryContext", "") ]

\* dateutil isoparse: the instant (as yyyymmdd) of an ISO-8601 text, or no
\* value (ValueError) for any other text.
IsoParse(value) ==
    CASE value = "2024-03-01T00:00:00Z" -> {20240301}
      [] value = "2024-09-01T00:00:00Z" -> {20240901}
      [] OTHER -> {}

March == "2024-03-01T00:00:00Z"
September == "2024-09-01T00:00:00Z"

DefaultTop == 1000

RawQuery(min_time, max_time) == [ min_time |-> min_time, max_time |-> max_time ]

\* The last one is the call main() makes, with minTime= and maxTime=.
RawQueries ==
    { RawQuery(March, September), RawQuery(September, March),
      RawQuery(March, March), RawQuery("yesterday", September),
      RawQuery(March, "01/09/2024"), RawQuery(Missing, Missing) }

NoQuery ==
    [ ok |-> FALSE, error |-> NoExc,
      raw |-> [ min_time |-> "", max_time |-> "" ],
      top |-> 0, min_time |-> "", max_time |-> "" ]

\* Variant: a validator that returns the value without parsing it.
check_iso8601_format_unchecked(value) == TRUE

\* check_iso8601_format: the field validator of min_time and max_time.
\* TRUE when the value passes (is returned unchanged).
check_iso8601_format(value) == IsoParse(value) # {}

\* PullRequestQueryParameters(**raw): fields are validated in declaration
\* order; the validator's AdoServiceValidationError is no ValueError, so it
\* leaves the constructor as it is raised; a missing field is reported by
\* pydantic's ValidationError once every field has been looked at.
PullRequestQueryParameters(raw) ==
    IF raw.min_time # Missing /\ ~check_iso8601_format(raw.min_time)
    THEN [ NoQuery EXCEPT !.raw = raw, !.error =
             Exc("AdoServiceValidationError", DATE_FORMAT_INVALID, raw.min_time) ]
    ELSE IF raw.max_time # Missing /\ ~check_iso8601_format(raw.max_time)
    THEN [ NoQuery EXCEPT !.raw = raw, !.error =
             Exc("AdoServiceValidationError", DATE_FORMAT_INVALID, raw.max_time) ]
    ELSE IF raw.min_time = Missing \/ raw.max_time = Missing
    THEN [ NoQuery EXCEPT !.raw = raw, !.error =
             Exc("ValidationError", "PullRequestQueryParameters", "") ]
    ELSE [ ok |-> TRUE, error |-> NoExc, raw |-> raw, top |-> DefaultTop,
           min_time |-> raw.min_time, max_time |-> raw.max_time ]

\* Model.model_validate(value) as the service calls it: an instance of the
\* model is accepted as it is, anything else (None) is rejected.
model_validate(obj) == obj.ok

\* ------------------------------------------------------------- AdoService
NoService ==
    [ built |-> FALSE, error |-> NoExc, base_address |-> "", org_name |-> "",
      http_timeout |-> 0 ]

\* AdoService.__init__: re-validates the configuration, copies its fields
\* and creates the aiohttp.ClientSession.
AdoServiceInit(cfg) ==
    IF ~model_validate(cfg)
    THEN [ NoService EXCEPT !.error =
             Exc("AdoServiceValidationError", VALIDATION_ERROR,
                 "AdoServiceConfiguration") ]
    ELSE [ built |-> TRUE, error |-> NoExc,
           base_address |-> cfg.base_address,
           org_name |-> cfg.organization_name,
           http_timeout |-> cfg.http_timeout ]

\* What the transport can answer to one GET.
Response(status, body) ==
    [ t |-> "response", status |-> status, body |-> body, cls |-> "" ]
TransportError(cls) ==
    [ t |-> "error", status |-> 0, body |-> "", cls |-> cls ]

Statuses == {200, 201, 203, 404, 500}

TransportOutcomes ==
    { Response(s, "json") : s \in Statuses }
    \cup { Response(200, "not_json"), Response(200, "wrong_content_type") }
    \cup { TransportError(c) :
             c \in {"ClientConnectionError", "ServerTimeoutError",
                    "ClientPayloadError", "TimeoutError"} }

\* The transient transport faults of the failure table.
IsConnectionFailure(o) == o.t = "error" /\ o.cls = "ClientConnectionError"
IsServerTimeout(o) == o.t = "error" /\ o.cls = "ServerTimeoutError"

\* Variant: the body is handed back as text, not decoded.
ResponseText(o) == Return("text")

\* response.json(): the content type is checked first (ContentTypeError, a
\* ClientResponseError carrying the response status), then the body decoded.
ResponseJson(o) ==
    CASE o.body = "json" -> Return("json")
      [] o.body = "wrong_content_type" ->
            Raise(Exc("ContentTypeError", "", ToString(o.status)))
      [] OTHER -> Raise(Exc("JSONDecodeError", "", ""))

\* The statements under "async with self._http_session.get(...)".
ClassifyResponse(o) ==
    IF o.status = 203
    THEN Raise(Exc("AdoServiceInvalidPATError", ADO_PAT_ERROR, ""))
    ELSE IF o.status = 404
    THEN Raise(Exc("AdoServiceInvalidUrlError", ADO_URL_ERROR, ""))
    ELSE IF o.status # 200
    THEN Raise(Exc("AdoServiceError", ADO_HTTP_REQUEST_FAILED,
                   ToString(o.status)))
    ELSE ResponseJson(o)

\* The except clauses of _make_request, in their written order: the first
\* clause whose class the exception is an instance of handles it.
ExceptClauses ==
    << [ catch |-> "ClientResponseError", msg |-> ADO_HTTP_REQUEST_FAILED ],
       [ catch |-> "ClientConnectionError", msg |-> ADO_HTTP_CLIENT_ERROR ],
       [ catch |-> "ServerTimeoutError", msg |-> HTTP_TIMEOUT ],
       [ catch |-> "ClientError", msg |-> ADO_HTTP_CLIENT_ERROR ] >>

Handle(e) ==
    LET hits == { i \in DOMAIN ExceptClauses :
                    IsInstance(e, ExceptClauses[i].catch) }
    IN IF hits = {}
       THEN Raise(e)
       ELSE LET i == CHOOSE j \in hits : \A k \in hits : j <= k
            IN Raise(Exc("AdoServiceError", ExceptClauses[i].msg,
                         IF ExceptClauses[i].msg = ADO_HTTP_REQUEST_FAILED
                         THEN e.arg ELSE ""))

\* session.get(...) on a closed aiohttp session.
SessionClosedError == Exc("RuntimeError", "Session is closed", "")

\* One execution of the body of _make_request on a transport answer.
MakeRequestBody(o) ==
    LET r == IF o.t = "response" THEN ClassifyResponse(o)
             ELSE Raise(Exc(o.cls, "", ""))
    IN IF r.kind = "raise" THEN Handle(r.exc) ELSE r

\* ------------------------------------------------- the tenacity decorator
MaxAttempts == 3

\* Variant: a retry condition that matches every exception.
RetryPredicateAnyException(e) == IsInstance(e, "Exception")

\* Variant: a retry condition that matches whatever the body raises,
\* cancellation included.
RetryPredicateBaseException(e) == TRUE

\* retry=(retry_if_exception_type(ClientConnectionError) |
\*        retry_if_exception_type(ServerTimeoutError))
RetryPredicate(e) ==
    IsInstance(e, "ClientConnectionError") \/ IsInstance(e, "ServerTimeoutError")

\* stop=stop_after_attempt(3)
StopAfterAttempt(attempt) == attempt >= MaxAttempts

\* wait=wait_exponential_jitter(jitter=1, initial=4, max=10), in seconds;
\* exp_base is not given: tenacity's default, 2.
WaitInitial == 4
WaitMax == 10
WaitJitter == 1
WaitExpBase == 2

Min(a, b) == IF a <= b THEN a ELSE b

\* random.uniform(0, jitter), in ticks.
Jitters == 0 .. WaitJitter * TicksPerSecond

\* Variant: the exponent is the number of the attempt that failed.
WaitExponentByAttempt(attempt, jitter) ==
    Min(WaitInitial * TicksPerSecond * WaitExpBase ^ attempt + jitter,
        WaitMax * TicksPerSecond)

\* The wait, in ticks, after attempt number attempt failed:
\* min(initial * exp_base ** (attempt - 1) + uniform(0, jitter), max).
WaitExponentialJitter(attempt, jitter) ==
    Min(WaitInitial * TicksPerSecond * WaitExpBase ^ (attempt - 1) + jitter,
        WaitMax * TicksPerSecond)

\* reraise is not given to @retry: tenacity's default, False.
Reraise == FALSE

\* tenacity's verdict on the outcome r of attempt number `attempt`.
RetryDecision(r, attempt) ==
    IF r.kind # "raise" \/ ~RetryPredicate(r.exc) THEN "pass"
    ELSE IF StopAfterAttempt(attempt) THEN "stop"
    ELSE "retry"

\* What the decorated call hands to its caller once tenacity stops.
RetryGiveUp(r) ==
    IF Reraise THEN r ELSE Raise(Exc("RetryError", "", r.exc.cls))

\* ---------------------------------------------------------- request targets
Target(url, minTime, maxTime) ==
    [ url |-> url, minTime |-> minTime, maxTime |-> maxTime ]

\* The f-string of get_projects.
ProjectsUrl(service) ==
    Target(service.base_address \o "/" \o service.org_name \o "/"
             \o "_apis/projects?api-version=7.1-preview.1", "", "")

\* The f-string of get_pull_requests.
PullRequestsUrl(service, ctx, q) ==
    Target(service.base_address \o "/" \o service.org_name \o "/"
             \o ctx.project_name \o "/_apis/git/repositories/"
             \o ctx.repository_name
             \o "/pullrequests?api-version=7.1-preview.1&"
             \o "$top=" \o ToString(q.top) \o "&"
             \o "searchCriteria.status=All&"
             \o "searchCriteria.minTime=" \o q.min_time \o "&"
             \o "searchCriteria.maxTime=" \o q.max_time,
           q.min_time, q.max_time)

\* ------------------------------------------------------------ operations
\* The call in progress: attempts counts the executions of the body of
\* _make_request begun, outcomes lists the transport's answers to them,
\* sent counts the requests put on the wire, afterExit tells whether
\* __aexit__ had run when the operation was called, cancelledAt is the
\* number of the attempt during which the caller cancelled (0: never),
\* waits lists the waits computed by the retry policy, in ticks.
NoTarget == Target("", "", "")

IdleOp ==
    [ kind |-> "none", pc |-> "idle", attempts |-> 0, outcomes |-> << >>,
      lastRaised |-> NoResult, result |-> NoResult, target |-> NoTarget,
      sent |-> 0, afterExit |-> FALSE, cancelledAt |-> 0, waits |-> << >> ]

\* A call of _make_request(url) about to make its first attempt.
NewOp(kind, target) ==
    [ IdleOp EXCEPT !.kind = kind, !.pc = "ready", !.target = target,
                    !.afterExit = exits > 0 ]

\* An operation that failed before _make_request was called.
FailedOp(kind, e) ==
    [ IdleOp EXCEPT !.kind = kind, !.pc = "done", !.result = Raise(e),
                    !.afterExit = exits > 0 ]

\* The operation after attempt number o.attempts ended with r: tenacity
\* returns or re-raises r, gives up, or sleeps and calls the body again.
AfterAttempt(o, r) ==
    LET d == RetryDecision(r, o.attempts)
    IN [ o EXCEPT !.lastRaised = r,
                  !.pc = IF d = "retry" THEN "ready" ELSE "done",
                  !.result = CASE d = "pass" -> r
                               [] d = "stop" -> RetryGiveUp(r)
                               [] OTHER -> NoResult ]

Ado == client = "ado"

CanCall ==
    /\ Ado
    /\ ado_service.built
    /\ op.pc \in {"idle", "done"}
    /\ opsStarted < MaxOps

\* The caller builds its objects in the order of main(): the configuration,
\* the repository context, the query window, then the service; each
\* constructor either returns the object or raises (error set).
ConstructConfig ==
    /\ Ado
    /\ config = NoConfig
    /\ ado_service = NoService
    /\ \E raw \in RawConfigs : config' = AdoServiceConfiguration(raw)
    /\ UNCHANGED << client, ado_service, http_session, context, query, op,
                    opsStarted, netRequests, requests, scopeVars,
                    storageVars >>

\* Variant: a constructor that leaves opening the session to __aenter__.
ConstructServiceLazily ==
    /\ Ado
    /\ ado_service = NoService
    /\ query # NoQuery
    /\ ado_service' = AdoServiceInit(config)
    /\ UNCHANGED << client, config, http_session, context, query, op,
                    opsStarted, netRequests, requests, scopeVars,
                    storageVars >>

\* AdoService(config); a caller without a configuration passes None.
ConstructService ==
    /\ Ado
    /\ ado_service = NoService
    /\ query # NoQuery
    /\ ado_service' = AdoServiceInit(config)
    /\ http_session' = IF ado_service'.built THEN "open" ELSE http_session
    /\ UNCHANGED << client, config, context, query, op, opsStarted,
                    netRequests, requests, scopeVars, storageVars >>

\* The caller builds a RepositoryContext.
ConstructContext ==
    /\ Ado
    /\ context = NoContext
    /\ config # NoConfig
    /\ ado_service = NoService
    /\ \E raw \in RawContexts : context' = RepositoryContext(raw)
    /\ UNCHANGED << client, config, ado_service, http_session, query, op,
                    opsStarted, netRequests, requests, scopeVars,
                    storageVars >>

\* The caller builds a PullRequestQueryParameters.
ConstructQuery ==
    /\ Ado
    /\ query = NoQuery
    /\ context # NoContext
    /\ ado_service = NoService
    /\ \E raw \in RawQueries : query' = PullRequestQueryParameters(raw)
    /\ UNCHANGED << client, config, ado_service, http_session, context, op,
                    opsStarted, netRequests, requests, scopeVars,
                    storageVars >>

\* get_projects up to its call of _make_request.
GetProjects ==
    /\ CanCall
    /\ op' = NewOp("get_projects", ProjectsUrl(ado_service))
    /\ requests' = requests \cup {op'.target}
    /\ opsStarted' = opsStarted + 1
    /\ UNCHANGED << client, config, ado_service, http_session, context,
                    query, netRequests, scopeVars, storageVars >>

\* get_pull_requests(context, query_params) up to its call of
\* _make_request; the caller passes the objects it built, or None.
GetPullRequests ==
    /\ CanCall
    /\ \E ctx \in {context, NoContext}, q \in {query, NoQuery} :
         /\ op' = IF ~model_validate(ctx)
                  THEN FailedOp("get_pull_requests",
                                Exc("AdoServiceValidationError",
                                    VALIDATION_ERROR, "RepositoryContext"))
                  ELSE IF ~model_validate(q)
                  THEN FailedOp("get_pull_requests",
                                Exc("AdoServiceValidationError",
                                    VALIDATION_ERROR,
                                    "PullRequestQueryParameters"))
                  ELSE NewOp("get_pull_requests",
                             PullRequestsUrl(ado_service, ctx, q))
         /\ requests' = IF op'.pc = "ready" THEN requests \cup {op'.target}
                        ELSE requests
    /\ opsStarted' = opsStarted + 1
    /\ UNCHANGED << client, config, ado_service, http_session, context,
                    query, netRequests, scopeVars, storageVars >>

\* One attempt of _make_request begins: self._http_session.get(url, ...).
\* A closed session refuses the call before anything is sent.
SendRequest ==
    /\ Ado
    /\ op.pc = "ready"
    /\ LET o == [ op EXCEPT !.attempts = @ + 1 ]
       IN IF http_session = "open"
          THEN /\ op' = [ o EXCEPT !.pc = "inflight", !.sent = @ + 1 ]
               /\ netRequests' = netRequests + 1
          ELSE /\ op' = AfterAttempt(o, Handle(SessionClosedError))
               /\ netRequests' = netRequests
    /\ UNCHANGED << client, config, ado_service, http_session, context,
                    query, opsStarted, requests, scopeVars, storageVars >>

\* The transport answers the request in flight; the body of _make_request
\* classifies the answer and tenacity decides what happens next.
ReceiveOutcome ==
    /\ Ado
    /\ op.pc = "inflight"
    /\ \E o \in TransportOutcomes :
         op' = AfterAttempt([ op EXCEPT !.outcomes = Append(@, o) ],
                            MakeRequestBody(o))
    /\ UNCHANGED << client, config, ado_service, http_session, context,
                    query, opsStarted, netRequests, requests, scopeVars,
                    storageVars >>

\* The caller cancels the awaited operation while its request is in
\* flight: CancelledError is raised at the await inside the body.
CancelOp ==
    /\ Ado
    /\ op.pc = "inflight"
    /\ op' = AfterAttempt([ op EXCEPT !.cancelledAt = op.attempts ],
                          Handle(Exc("CancelledError", "", "")))
    /\ UNCHANGED << client, config, ado_service, http_session, context,
                    query, opsStarted, netRequests, requests, scopeVars,
                    storageVars >>

\* --------------------------------------------------------- StorageService
MISSING_CONNECTION_STRING == "Specify a connection string"
STORAGE_VALIDATION_ERROR == "{class_name} validation failure"

RawConnectionStrings == {"UseDevelopmentStorage=true", "garbage", Missing}

\* BlobServiceClient.from_connection_string accepts "key=value;..." texts.
IsConnectionString(cs) == cs = "UseDevelopmentStorage=true"

NoStorage == [ built |-> FALSE, error |-> NoExc, connection_string |-> "" ]

\* StorageService.__init__
StorageServiceInit(cs) ==
    IF cs = Missing
    THEN [ NoStorage EXCEPT !.error =
             Exc("StorageServiceArgumentError", MISSING_CONNECTION_STRING, "") ]
    ELSE IF ~IsConnectionString(cs)
    THEN [ NoStorage EXCEPT !.error = Exc("ValueError", "", "") ]
    ELSE [ built |-> TRUE, error |-> NoExc, connection_string |-> cs ]

Containers == {"c", "d"}
Contents == {"x", "y"}
TaskIds == 1 .. UploadTasks

NoUpload ==
    [ ok |-> FALSE, content |-> "", blob_name |-> "", container_name |-> "" ]

\* BlobUploadContext(content=..., blob_name=..., container_name=...)
BlobUploadContext(content, blob_name, container_name) ==
    IF Missing \in {content, blob_name, container_name}
    THEN NoUpload
    ELSE [ ok |-> TRUE, content |-> content, blob_name |-> blob_name,
           container_name |-> container_name ]

UploadContexts ==
    { BlobUploadContext(x, "b", c) : x \in Contents, c \in Containers }
    \cup {NoUpload}

\* One upload_string call: existed tells whether the target container was
\* there when the call began, creates counts the create_container calls
\* the call has made; attempts counts the times the retry policy has sent
\* the request of a call to the service, backoffs lists the waits between
\* them, in seconds.
IdleTask ==
    [ pc |-> "idle", context |-> NoUpload, existed |-> FALSE,
      sawExists |-> FALSE, creates |-> 0, result |-> NoResult,
      attempts |-> 0, backoffs |-> << >> ]

Storage == client = "storage"

\* The caller builds a StorageService.
ConstructStorage ==
    /\ Storage
    /\ ~storage_service.built
    /\ storage_service.error = NoExc
    /\ \E cs \in RawConnectionStrings :
         storage_service' = StorageServiceInit(cs)
    /\ blob_service_client' =
         IF storage_service'.built THEN "open" ELSE blob_service_client
    /\ UNCHANGED << client, adoVars, scopeVars, tasks, containers,
                    createCalls, created, blobs, listing >>

\* upload_string(context) up to get_container_client: the context is
\* validated; the caller passes a BlobUploadContext or None.  Uploads and
\* a listing share no state, so a behaviour exercises one or the other.
UploadStart(t) ==
    /\ Storage
    /\ storage_service.built
    /\ blob_service_client = "open"
    /\ tasks[t].pc = "idle"
    /\ listing.pc = "none"
    /\ \E ctx \in UploadContexts :
         tasks' = [ tasks EXCEPT ![t] =
           IF model_validate(ctx)
           THEN [ @ EXCEPT !.pc = "exists", !.context = ctx,
                           !.existed = ctx.container_name \in containers ]
           ELSE [ @ EXCEPT !.pc = "done", !.result =
                    Raise(Exc("StorageServiceValidationError",
                              STORAGE_VALIDATION_ERROR, "BlobUploadContext")) ] ]
    /\ UNCHANGED << client, adoVars, scopeVars, storage_service,
                    blob_service_client, containers, createCalls, created,
                    blobs, listing >>

\* Variant: create_container is called whatever exists() answers.
NeedsCreateAlways(exists) == TRUE

\* if not await container_client.exists():
NeedsCreate(exists) == ~exists

\* await container_client.exists()
UploadExists(t) ==
    /\ Storage
    /\ tasks[t].pc = "exists"
    /\ LET saw == tasks[t].context.container_name \in containers
       IN tasks' = [ tasks EXCEPT ![t].sawExists = saw,
                                  ![t].pc = IF NeedsCreate(saw) THEN "create"
                                           ELSE "upload" ]
    /\ UNCHANGED << client, adoVars, scopeVars, storage_service,
                    blob_service_client, containers, createCalls, created,
                    blobs, listing >>

\* await container_client.create_container(): the service answers 409
\* (ResourceExistsError) when the container exists by now.
UploadCreate(t) ==
    /\ Storage
    /\ tasks[t].pc = "create"
    /\ LET c == tasks[t].context.container_name
       IN /\ createCalls' = [ createCalls EXCEPT ![c] = @ + 1 ]
          /\ IF c \in containers
             THEN /\ tasks' = [ tasks EXCEPT ![t].pc = "done",
                                  ![t].creates = @ + 1, ![t].result =
                                  Raise(Exc("ResourceExistsError", "", "409")) ]
                  /\ UNCHANGED << containers, created >>
             ELSE /\ tasks' = [ tasks EXCEPT ![t].pc = "upload",
                                                 ![t].creates = @ + 1 ]
                  /\ containers' = containers \cup {c}
                  /\ created' = [ created EXCEPT ![c] = @ + 1 ]
    /\ UNCHANGED << client, adoVars, scopeVars, storage_service,
                    blob_service_client, blobs, listing >>

\* await blob_client.upload_blob(content, overwrite=True); return the result.
UploadBlob(t) ==
    /\ Storage
    /\ tasks[t].pc = "upload"
    /\ LET u == tasks[t].context
       IN blobs' = { b \in blobs : ~(b.container_name = u.container_name
                                      /\ b.blob_name = u.blob_name) }
                   \cup { [ container_name |-> u.container_name,
                            blob_name |-> u.blob_name,
                            content |-> u.content ] }
    /\ tasks' = [ tasks EXCEPT ![t].pc = "done",
                               ![t].result = Return("receipt") ]
    /\ UNCHANGED << client, adoVars, scopeVars, storage_service,
                    blob_service_client, containers, createCalls, created,
                    listing >>

\* ------------------------------------------------------------ list_blobs
MISSING_CONTAINER_NAME == "Specify a container name"

BlobNames == {"a", "b", "c"}

\* What the service holds in a container: up to MaxBlobs blobs, in the
\* order in which it lists them.
Listings ==
    { s \in UNION { [ 1 .. n -> BlobNames ] : n \in 0 .. MaxBlobs } :
        \A i, j \in DOMAIN s : i # j => s[i] # s[j] }

\* The async generator object of one list_blobs call.  pc: none (no call
\* yet), created (the object exists, its body has not started), fetching
\* (the body awaits the next item of the remote sequence), yielding (the
\* body holds taken items and is about to yield), suspended (at the yield,
\* the consumer holds the item), done.  taken counts the items the body
\* has taken from the remote sequence, received the items handed to the
\* consumer.
NoListing ==
    [ pc |-> "none", container_name |-> "", callResult |-> NoResult,
      remote |-> << >>, taken |-> 0, buffer |-> << >>, received |-> << >>,
      result |-> NoResult ]

\* service.list_blobs(container_name): list_blobs is an async generator
\* function (its body yields), so the call runs none of the body; it
\* returns the generator object.
ListBlobs ==
    /\ Storage
    /\ storage_service.built
    /\ blob_service_client = "open"
    /\ listing.pc = "none"
    /\ \A t \in TaskIds : tasks[t].pc = "idle"
    /\ \E c \in Containers \cup {Missing} :
         listing' = [ NoListing EXCEPT !.pc = "created",
                                       !.container_name = c,
                                       !.callResult = Return("generator") ]
    /\ UNCHANGED << client, adoVars, scopeVars, storage_service,
                    blob_service_client, tasks, containers, createCalls,
                    created, blobs >>

\* The consumer asks the generator for its next item (async for).  The
\* first request starts the body: the None check, get_container_client and
\* container_client.list_blobs(), which sends nothing yet.
ListPull ==
    /\ Storage
    /\ blob_service_client = "open"
    /\ listing.pc \in {"created", "suspended"}
    /\ IF listing.pc = "created"
       THEN IF listing.container_name = Missing
            THEN listing' = [ listing EXCEPT !.pc = "done", !.result =
                     Raise(Exc("StorageServiceArgumentError",
                               MISSING_CONTAINER_NAME, "")) ]
            ELSE \E s \in Listings :
                   listing' = [ listing EXCEPT !.pc = "fetching",
                                               !.remote = s ]
       ELSE listing' = [ listing EXCEPT !.pc =
                IF listing.buffer = << >> THEN "fetching" ELSE "yielding" ]
    /\ UNCHANGED << client, adoVars, scopeVars, storage_service,
                    blob_service_client, tasks, containers, createCalls,
                    created, blobs >>

\* Variant: the body collects the whole remote sequence before it yields.
TakeAll(remote, taken) == Len(remote) - taken

\* "async for blob in container_client.list_blobs(): yield blob" takes one
\* item of the remote sequence, then yields it.
TakeNext(remote, taken) == 1

\* The body awaits the remote sequence: items arrive, or the sequence has
\* ended and the generator finishes.
ListFetch ==
    /\ Storage
    /\ listing.pc = "fetching"
    /\ LET n == Len(listing.remote)
           k == listing.taken
           upto == Min(n, k + TakeNext(listing.remote, k))
       IN listing' =
            IF k < n
            THEN [ listing EXCEPT !.pc = "yielding", !.taken = upto,
                     !.buffer = SubSeq(listing.remote, k + 1, upto) ]
            ELSE [ listing EXCEPT !.pc = "done",
                                  !.result = Return("exhausted") ]
    /\ UNCHANGED << client, adoVars, scopeVars, storage_service,
                    blob_service_client, tasks, containers, createCalls,
                    created, blobs >>

\* yield blob: the item is handed to the consumer and the body suspends.
ListYield ==
    /\ Storage
    /\ listing.pc = "yielding"
    /\ listing' = [ listing EXCEPT !.pc = "suspended",
                                   !.received = Append(@, Head(listing.buffer)),
                                   !.buffer = Tail(@) ]
    /\ UNCHANGED << client, adoVars, scopeVars, storage_service,
                    blob_service_client, tasks, containers, createCalls,
                    created, blobs >>

\* --------------------------------------------------- the scoped lifetime
Built == IF Ado THEN ado_service.built ELSE storage_service.built

\* No call of the client is being awaited.
Quiet ==
    IF Ado THEN op.pc \in {"idle", "done"}
    ELSE /\ \A t \in TaskIds : tasks[t].pc \in {"idle", "done"}
         /\ listing.pc \notin {"fetching", "yielding"}

\* The exceptions an awaited call has raised into the with-body.
RaisedInBody ==
    IF Ado
    THEN IF op.pc = "done" /\ op.result.kind = "raise"
         THEN {op.result.exc} ELSE {}
    ELSE { tasks[t].result.exc :
             t \in { u \in TaskIds : tasks[u].pc = "done"
                                     /\ tasks[u].result.kind = "raise" } }
         \cup (IF listing.result.kind = "raise"
               THEN {listing.result.exc} ELSE {})

\* __aenter__: returns self.  Nothing keeps a caller from entering the
\* scope of a client again after leaving it.
AEnter ==
    /\ Built
    /\ scope \in (IF exits < MaxScopes THEN {"outside", "exited"}
                  ELSE {"outside"})
    /\ Quiet
    /\ scope' = "inside"
    /\ UNCHANGED << client, adoVars, storageVars, closeCalls, exits,
                    bodyExc, propagated >>

\* Variant: an __aexit__ that returns True.
AExitSuppressesAlways == TRUE

\* The value __aexit__ returns: None, so the exception is not suppressed.
AExitSuppresses == FALSE

\* Variant: an __aexit__ that does not close the session.
SessionCloseForgotten(session) == session

\* close() of the transport session.
SessionClose(session) == "closed"

\* __aexit__(exc_type, exc_val, exc_tb): awaits close() and returns None.
AExit(exc) ==
    /\ scope = "inside"
    /\ Quiet
    /\ scope' = "exited"
    /\ exits' = exits + 1
    /\ closeCalls' = closeCalls + 1
    /\ IF Ado
       THEN /\ http_session' = SessionClose(http_session)
            /\ UNCHANGED blob_service_client
       ELSE /\ blob_service_client' = SessionClose(blob_service_client)
            /\ UNCHANGED http_session
    /\ bodyExc' = exc
    /\ propagated' = IF AExitSuppresses THEN NoExc ELSE exc
    /\ UNCHANGED << client, config, ado_service, context, query, op,
                    opsStarted, netRequests, requests, storage_service,
                    tasks, containers, createCalls, created, blobs,
                    listing >>

\* The with-body ends normally.
ExitNormal == AExit(NoExc)

\* The with-body is left by an exception of an awaited call (a failure of
\* request handling, or CancelledError).
ExitRaising == \E e \in RaisedInBody : AExit(e)

\* ------------------------------------------------------------------ Init
Init ==
    /\ client \in {"ado", "storage"}
    /\ config = NoConfig
    /\ ado_service = NoService
    /\ storage_service = NoStorage
    /\ http_session = "none"
    /\ blob_service_client = "none"
    /\ scope = "outside"
    /\ closeCalls = 0
    /\ exits = 0
    /\ bodyExc = NoExc
    /\ propagated = NoExc
    /\ context = NoContext
    /\ query = NoQuery
    /\ op = IdleOp
    /\ opsStarted = 0
    /\ netRequests = 0
    /\ requests = {}
    /\ tasks = [ t \in TaskIds |-> IdleTask ]
    /\ containers \in SUBSET Containers
    /\ createCalls = [ c \in Containers |-> 0 ]
    /\ created = [ c \in Containers |-> 0 ]
    /\ blobs = {}
    /\ listing = NoListing

Next ==
    \/ ConstructConfig
    \/ ConstructService
    \/ ConstructContext
    \/ ConstructQuery
    \/ GetProjects
    \/ GetPullRequests
    \/ SendRequest
    \/ ReceiveOutcome
    \/ CancelOp
    \/ ConstructStorage
    \/ \E t \in TaskIds : UploadStart(t)
    \/ \E t \in TaskIds : UploadExists(t)
    \/ \E t \in TaskIds : UploadCreate(t)
    \/ \E t \in TaskIds : UploadBlob(t)
    \/ ListBlobs
    \/ ListPull
    \/ ListFetch
    \/ ListYield
    \/ AEnter
    \/ ExitNormal
    \/ ExitRaising

Spec == Init /\ [][Next]_vars

\* -------------------------------------------- the storage retry policy
\* retry_policy = ExponentialRetry(initial_backoff=10, increment_base=4,
\*                                 retry_total=3)
InitialBackoff == 10
IncrementBase == 4
RetryTotal == 3

\* Variant: retry_total read as the number of attempts.
RetryExhaustedAtTotal(attempts) == attempts >= RetryTotal

\* The policy takes one from retry_total at each failure and gives up once
\* the count is below zero: attempts is the number of requests sent so far.
RetryExhausted(attempts) == RetryTotal - attempts < 0

\* The centre of the wait before retry number count; the policy draws the
\* wait uniformly within its jitter range around it.
GetBackoffTime(count) ==
    InitialBackoff + (IF count = 0 THEN 0 ELSE IncrementBase ^ count)

\* The retry policy of the BlobServiceClient taken by itself: each request
\* of a storage call is answered or hit by a transient fault.
PipelineInit ==
    /\ Init
    /\ client = "storage"

\* The policy sends the request of a call for the first time.
PipelineSend(t) ==
    /\ Storage
    /\ tasks[t].pc = "idle"
    /\ tasks' = [ tasks EXCEPT ![t].pc = "await", ![t].attempts = 1 ]
    /\ UNCHANGED << client, adoVars, scopeVars, storage_service,
                    blob_service_client, containers, createCalls, created,
                    blobs, listing >>

\* The service answers, or a transient fault hits the request: the policy
\* waits and sends it again unless its retries are used up.
PipelineAnswer(t) ==
    /\ Storage
    /\ tasks[t].pc = "await"
    /\ \E fault \in BOOLEAN :
         tasks' = [ tasks EXCEPT ![t] =
           IF ~fault
           THEN [ @ EXCEPT !.pc = "done", !.result = Return("response") ]
           ELSE IF RetryExhausted(@.attempts)
           THEN [ @ EXCEPT !.pc = "done", !.result =
                    Raise(Exc("ServiceRequestError", "", "")) ]
           ELSE [ @ EXCEPT !.attempts = @ + 1,
                           !.backoffs =
                              Append(@, GetBackoffTime(Len(@) + 1)) ] ]
    /\ UNCHANGED << client, adoVars, scopeVars, storage_service,
                    blob_service_client, containers, createCalls, created,
                    blobs, listing >>

PipelineNext ==
    \/ \E t \in TaskIds : PipelineSend(t)
    \/ \E t \in TaskIds : PipelineAnswer(t)

PipelineSpec == PipelineInit /\ [][PipelineNext]_vars

\* ------------------------------------------------- the retry policy's waits
\* The wait policy of the @retry decorator taken by itself: an operation
\* whose attempts all end in a failure the policy retries; before each
\* further attempt the policy computes a wait from the number of the
\* attempt that failed and a fresh jitter draw.
BackoffInit ==
    /\ Init
    /\ client = "ado"

Backoff ==
    /\ Ado
    /\ op.pc = "idle"
    /\ op.attempts < MaxAttempts
    /\ \E attempt \in {op.attempts + 1}, jitter \in Jitters :
         op' = [ op EXCEPT !.attempts = attempt,
                           !.waits = IF StopAfterAttempt(attempt) THEN @
                                     ELSE Append(@, WaitExponentialJitter(
                                                      attempt, jitter)) ]
    /\ UNCHANGED << client, config, ado_service, http_session, context,
                    query, opsStarted, netRequests, requests, scopeVars,
                    storageVars >>

BackoffSpec == BackoffInit /\ [][Backoff]_vars

\* ================================================================ claims
\* The last answer the transport gave to the operation in progress.
LastOutcome == op.outcomes[Len(op.outcomes)]

Answered == Len(op.outcomes) > 0

IsTransient(o) == IsConnectionFailure(o) \/ IsServerTimeout(o)

Cancelled == op.result.exc.cls = "CancelledError"

\* The transport session of the client this behaviour exercises.
Session == IF Ado THEN http_session ELSE blob_service_client

\* The statuses the failure table treats as permanent failures.
IsPermanentStatus(o) ==
    o.t = "response" /\ (o.status \in {203, 404} \/ o.status < 200 \/ o.status >= 300)

\* The failure the table gives for a permanent status.
TableFailure(o) ==
    CASE o.status = 203 -> Exc("AdoServiceInvalidPATError", ADO_PAT_ERROR, "")
      [] o.status = 404 -> Exc("AdoServiceInvalidUrlError", ADO_URL_ERROR, "")
      [] OTHER -> Exc("AdoServiceError", ADO_HTTP_REQUEST_FAILED,
                      ToString(o.status))

\* Constructor arguments that miss a required field or hold a malformed URL.
ConfigInvalid(raw) ==
    \/ raw.base_address = MissingUrl
    \/ raw.organization_name = Missing
    \/ raw.personal_access_token = Missing
    \/ raw.base_address.scheme \notin {"http", "https"}
    \/ raw.base_address.host = ""

\* A text that is given and is no ISO-8601 timestamp.
NotIso(text) == text \notin {March, September, Missing, ""}

WindowInvalid(raw) == NotIso(raw.min_time) \/ NotIso(raw.max_time)

\* The targets built by get_pull_requests.
PullRequestTargets == { r \in requests : r.minTime # "" \/ r.maxTime # "" }

Instant(text) == CHOOSE i \in IsoParse(text) : TRUE

\* Both texts parse and the first instant is later than the second.
Inverted(minTime, maxTime) ==
    /\ IsoParse(minTime) # {}
    /\ IsoParse(maxTime) # {}
    /\ Instant(minTime) > Instant(maxTime)

\* C1: an attempt that ends in a connection failure or a server-side
\* timeout is followed by another attempt while fewer than 3 have been
\* made: an operation never ends on a transient answer before its third
\* attempt (so an operation whose every attempt hits a connection failure
\* makes exactly 3 attempts).
C1_TransientFailureIsRetried ==
    (op.pc = "done" /\ Answered /\ ~Cancelled /\ IsTransient(LastOutcome))
        => op.attempts = MaxAttempts

\* C2: two concurrent uploads to one container that did not exist at the
\* start create it exactly once (one create_container call, one creation)
\* and both return a receipt, under every interleaving of their steps.
C2_ConcurrentUploadsCreateOnce ==
    \A t, u \in TaskIds :
        ( /\ t # u
          /\ tasks[t].pc = "done" /\ tasks[u].pc = "done"
          /\ tasks[t].context.ok /\ tasks[u].context.ok
          /\ tasks[t].context.container_name = tasks[u].context.container_name
          /\ ~tasks[t].sawExists )
        => /\ created[tasks[t].context.container_name] = 1
           /\ createCalls[tasks[t].context.container_name] = 1
           /\ tasks[t].result = Return("receipt")
           /\ tasks[u].result = Return("receipt")

\* C3: a response with status 203, 404 or another non-2xx status ends the
\* operation with the failure of the table (203: AdoServiceInvalidPATError,
\* 404: AdoServiceInvalidUrlError, other: AdoServiceError carrying the
\* status) after exactly one attempt and one request.
C3_PermanentStatusFailsWithoutRetry ==
    (Answered /\ op.pc # "inflight" /\ IsPermanentStatus(LastOutcome))
        => /\ op.pc = "done"
           /\ op.result = Raise(TableFailure(LastOutcome))
           /\ op.attempts = 1
           /\ op.sent = 1

C3_Witness ==
    /\ op.pc = "done"
    /\ op.outcomes = << Response(500, "json") >>
    /\ op.result.exc = Exc("AdoServiceError", ADO_HTTP_REQUEST_FAILED, "500")
    /\ op.attempts = 1

C5_ExitClosesOnceAndPropagates ==
    /\ closeCalls = exits
    /\ scope = "exited" => (Session = "closed" /\ propagated = bodyExc)

C5_Witness ==
    /\ Ado
    /\ scope = "exited"
    /\ bodyExc.cls = "CancelledError"
    /\ propagated = bodyExc
    /\ http_session = "closed"
    /\ closeCalls = 1

\* C6 as stated: a client holds an open transport session only while it is
\* inside its scope (entered and not yet exited).
C6_OpenOnlyInsideScope == Session = "open" => scope = "inside"

\* C6 as amended: the session is opened by the constructor and closed by
\* the first exit from the scope: a client holds an open session exactly
\* from its construction until its scope is first left, so a client that
\* is constructed and never entered holds an open session.
C6_OpenFromConstructionToExit ==
    (Session = "open") <=> (Built /\ exits = 0)

C6_Witness ==
    /\ Ado
    /\ ado_service.built
    /\ scope = "outside"
    /\ exits = 0
    /\ http_session = "open"
    /\ op.pc = "done"

\* C7 as stated: an operation called after the session was closed fails
\* with a failure of the client's taxonomy (an AdoServiceError) and puts no
\* request on the wire.
C7_ClosedSessionFailsInTaxonomy ==
    (op.afterExit /\ op.pc = "done")
        => /\ op.result.kind = "raise"
           /\ IsInstance(op.result.exc, "AdoServiceError")
           /\ op.sent = 0

\* C7 as amended: an operation called after the session was closed puts no
\* request on the wire and ends by raising: the validation failure of
\* get_pull_requests, or else the transport's own RuntimeError ("Session is
\* closed"), which is no AdoServiceError; it never returns a result.
C7_ClosedSessionRaisesUnclassified ==
    op.afterExit
        => /\ op.sent = 0
           /\ op.pc # "inflight"
           /\ op.pc = "done"
                => /\ op.result.kind = "raise"
                   /\ \/ op.result.exc = SessionClosedError
                      \/ /\ op.kind = "get_pull_requests"
                         /\ op.attempts = 0
                         /\ op.result.exc.cls = "AdoServiceValidationError"

C7_Witness ==
    /\ op.afterExit
    /\ op.pc = "done"
    /\ op.kind = "get_projects"
    /\ op.result = Raise(SessionClosedError)
    /\ http_session = "closed"

\* C8: no request is issued for inputs that fail validation: a
\* configuration with a missing field or a malformed URL is rejected by its
\* constructor, no service is built from it and no request is sent; a query
\* window whose min_time or max_time is not ISO-8601 is rejected by its
\* constructor and no pull-request target is ever built or sent; likewise
\* a repository context with a missing field.
C8_NoRequestForInvalidInput ==
    /\ (config # NoConfig /\ ConfigInvalid(config.raw))
         => /\ ~config.ok
            /\ config.error.cls = "ValidationError"
            /\ ~ado_service.built
            /\ netRequests = 0
            /\ requests = {}
    /\ (query # NoQuery /\ WindowInvalid(query.raw))
         => /\ ~query.ok
            /\ query.error.cls = "AdoServiceValidationError"
            /\ PullRequestTargets = {}
            /\ op.kind = "get_pull_requests" => op.sent = 0
    /\ (context # NoContext /\ Missing \in { context.raw.repository_name,
                                              context.raw.project_name })
         => /\ ~context.ok
            /\ context.error.cls = "ValidationError"
            /\ PullRequestTargets = {}
    /\ \A r \in PullRequestTargets : ~NotIso(r.minTime) /\ ~NotIso(r.maxTime)

C8_Witness ==
    /\ query.raw = RawQuery("yesterday", September)
    /\ ~query.ok
    /\ op.kind = "get_pull_requests"
    /\ op.pc = "done"
    /\ op.result.exc.cls = "AdoServiceValidationError"
    /\ netRequests = 0

\* C9: a query window whose min_time is later than its max_time is never
\* constructed, and no request target has minTime later than maxTime.
C9_NoInvertedWindow ==
    /\ query.ok => ~Inverted(query.min_time, query.max_time)
    /\ \A r \in requests : ~Inverted(r.minTime, r.maxTime)

\* C10: no configuration is constructed with a timeout <= 0 or an empty
\* organization name, no repository context with an empty project or
\* repository name, and no AdoService exists with http_timeout <= 0.
C10_RejectsNonPositiveTimeoutAndEmptyNames ==
    /\ config.ok => (config.http_timeout > 0 /\ config.organization_name # "")
    /\ context.ok => (context.project_name # "" /\ context.repository_name # "")
    /\ ado_service.built => ado_service.http_timeout > 0

IsOtherSuccessStatus(status) == status \in (200 .. 299) \ {200, 203}

\* C12 as stated: a response with a 2xx status other than 203 and a
\* parseable body makes the operation return the decoded body.
C12_Every2xxSucceeds ==
    ( /\ Ado /\ op.pc = "done" /\ Answered /\ ~Cancelled
      /\ LastOutcome.t = "response"
      /\ LastOutcome.status \in (200 .. 299) \ {203}
      /\ LastOutcome.body = "json" )
        => op.result = Return("json")

\* C12 (amended): a response with status 200 and a parseable body makes
\* the operation return the decoded body after one attempt; a response
\* with any other 2xx status except 203 makes it fail with AdoServiceError
\* "request failed" carrying that status, after one attempt.
C12_Only200Succeeds ==
    ( /\ Ado /\ op.pc = "done" /\ Answered /\ ~Cancelled
      /\ LastOutcome.t = "response"
      /\ LastOutcome.body = "json" )
        => /\ LastOutcome.status = 200 =>
                op.result = Return("json") /\ op.attempts = 1
           /\ IsOtherSuccessStatus(LastOutcome.status) =>
                /\ op.attempts = 1
                /\ op.result =
                     Raise(Exc("AdoServiceError", ADO_HTTP_REQUEST_FAILED,
                               ToString(LastOutcome.status)))

C12_Witness ==
    /\ Ado /\ op.pc = "done" /\ Answered
    /\ LastOutcome = Response(200, "json")
    /\ op.result = Return("json")
    /\ netRequests > 0

\* C13: a list_blobs call whose container name is absent fails at the
\* call itself with the missing-container argument error: no sequence is
\* handed to the caller (the failure does not wait for the first pull).
C13_MissingContainerFailsAtCall ==
    (Storage /\ listing.pc # "none" /\ listing.container_name = Missing)
        => /\ listing.callResult =
                Raise(Exc("StorageServiceArgumentError",
                          MISSING_CONTAINER_NAME, ""))
           /\ listing.pc = "done"

\* C14: the items handed to the consumer are at every moment a prefix of
\* the remote sequence (each once, in remote order); the body has taken at
\* most one item that it has not yet handed over, so item k+1 is requested
\* only after item k reached the consumer; a sequence consumed to its end
\* handed over exactly the remote sequence.
C14_LazyListingInRemoteOrder ==
    (Storage /\ listing.pc \notin {"none", "created"}
             /\ listing.container_name # Missing)
        => /\ Len(listing.received) <= Len(listing.remote)
           /\ listing.received =
                SubSeq(listing.remote, 1, Len(listing.received))
           /\ listing.taken <= Len(listing.received) + 1
           /\ listing.taken = Len(listing.received) + 1
                => listing.pc = "yielding"
           /\ listing.pc = "done" => listing.received = listing.remote

C14_Witness ==
    /\ Storage
    /\ listing.pc = "done"
    /\ listing.result = Return("exhausted")
    /\ Len(listing.remote) = MaxBlobs
    /\ listing.received = listing.remote

\* The caller's objects are those of the example: endpoint
\* https://dev.example.org, organization acme, project P, repository R,
\* window 2024-03-01T00:00:00Z .. 2024-09-01T00:00:00Z, top 1000.
ExampleInputs ==
    /\ config.ok
    /\ config.raw.base_address = RawUrl("https", "dev.example.org", "")
    /\ config.organization_name = "acme"
    /\ context.ok
    /\ context.project_name = "P" /\ context.repository_name = "R"
    /\ query.ok
    /\ query.min_time = "2024-03-01T00:00:00Z"
    /\ query.max_time = "2024-09-01T00:00:00Z"
    /\ query.top = 1000

ExampleTarget ==
    "https://dev.example.org/acme/P/_apis/git/repositories/R/pullrequests"
    \o "?api-version=7.1-preview.1&$top=1000&searchCriteria.status=All"
    \o "&searchCriteria.minTime=2024-03-01T00:00:00Z"
    \o "&searchCriteria.maxTime=2024-09-01T00:00:00Z"

\* C15: with the example's inputs the target get_pull_requests builds is
\* exactly the example's URL, with a single "/" between host and
\* organization.
C15_ExampleTargetIsExact ==
    ( /\ Ado /\ ExampleInputs
      /\ op.kind = "get_pull_requests" /\ op.target # NoTarget )
        => op.target.url = ExampleTarget

\* What the body of _make_request raises for a transport fault of class cls.
FailureFor(cls) == MakeRequestBody(TransportError(cls)).exc

\* The failures surfaced for an unexpected status.
StatusFailures ==
    { MakeRequestBody(Response(st, "json")).exc : st \in Statuses \ {200} }

\* C16: the failure raised for a server-side timeout is the timeout
\* failure (message HTTP_TIMEOUT), not the failure raised for a refused
\* connection, for another transport fault or for an unexpected status.
C16_ServerTimeoutIsDistinct ==
    ( /\ Ado /\ Answered /\ IsServerTimeout(LastOutcome)
      /\ op.lastRaised.kind = "raise" /\ ~Cancelled )
        => /\ op.lastRaised.exc.msg = HTTP_TIMEOUT
           /\ op.lastRaised.exc # FailureFor("ClientConnectionError")
           /\ op.lastRaised.exc # FailureFor("ClientPayloadError")
           /\ op.lastRaised.exc \notin StatusFailures

\* A success status whose body does not decode as JSON.
IsUnparseable(o) ==
    o.t = "response" /\ o.status \in 200 .. 299 /\ o.status # 203
    /\ o.body # "json"

\* C17: a 2xx response whose body does not parse ends the operation after
\* exactly one attempt with AdoServiceError "request failed" carrying no
\* status: never a raw decoding error, never the 2xx status.
C17_UnparseableBodyIsRequestFailed ==
    ( /\ Ado /\ op.pc = "done" /\ Answered /\ ~Cancelled
      /\ IsUnparseable(LastOutcome) )
        => /\ op.attempts = 1
           /\ op.result =
                Raise(Exc("AdoServiceError", ADO_HTTP_REQUEST_FAILED, ""))

\* C18: once the caller has cancelled an operation during a request
\* attempt, the operation is over with CancelledError and no attempt is
\* started after the one that was cancelled (no request is sent after it);
\* when the scope has been left afterwards, the session is closed, by one
\* close() per exit.
C18_CancelStopsAttemptsAndExitCloses ==
    (Ado /\ op.cancelledAt > 0)
        => /\ op.pc = "done"
           /\ op.result = Raise(Exc("CancelledError", "", ""))
           /\ op.attempts = op.cancelledAt
           /\ op.sent <= op.cancelledAt
           /\ exits > 0 => http_session = "closed" /\ closeCalls = exits

C18_Witness ==
    /\ Ado
    /\ op.cancelledAt > 0
    /\ op.pc = "done"
    /\ ~op.afterExit
    /\ scope = "exited"
    /\ bodyExc.cls = "CancelledError"
    /\ http_session = "closed"

\* The bound C19 states for the wait before attempt n, in ticks: initial
\* 4 s, growth factor 4, cap 10 s.
StatedWaitBound(n) == Min(4 * 4 ^ (n - 2), 10) * TicksPerSecond

\* The bound the configured policy keeps, in ticks.
PolicyWaitBound(n) ==
    Min((WaitInitial * WaitExpBase ^ (n - 2) + WaitJitter) * TicksPerSecond,
        WaitMax * TicksPerSecond)

C20_StorageAtMostThreeAttempts ==
    Storage => \A t \in TaskIds : tasks[t].attempts <= MaxAttempts

\* C20 (amended): a storage call makes at most 4 attempts in total (the
\* first and 3 retries); it gives up with the transport failure only
\* after the 4th attempt failed; the wait before retry k centres on
\* 10 + 4^k seconds.
C20_StorageAtMostFourAttempts ==
    Storage =>
      \A t \in TaskIds :
        /\ tasks[t].attempts <= 4
        /\ tasks[t].result.kind = "raise" => tasks[t].attempts = 4
        /\ Len(tasks[t].backoffs) = (IF tasks[t].attempts = 0 THEN 0
                                     ELSE tasks[t].attempts - 1)
        /\ \A k \in DOMAIN tasks[t].backoffs :
             tasks[t].backoffs[k] = 10 + 4 ^ k

C20_Witness ==
    /\ Storage
    /\ \E t \in TaskIds :
         /\ tasks[t].pc = "done"
         /\ tasks[t].attempts = 4
         /\ tasks[t].result = Raise(Exc("ServiceRequestError", "", ""))

====
